---- MODULE Spec2Model ----
(***************************************************************************)
(* Real-estate wholesaling backend: the deal / property / lead handlers of  *)
(* app/routers and the monthly revenue series of app/routers/dashboard.py.  *)
(*                                                                         *)
(* Money is counted in thousands; every amount used is a multiple of ten,   *)
(* so `x * 0.10` is exact (as it is in binary floating point for the       *)
(* corresponding multiples of 1000).  An Optional value is a sequence of    *)
(* length 0 (None) or 1 (the value).  A request body's update_data          *)
(* (dict(exclude_unset=True)) is a function whose DOMAIN is the set of      *)
(* supplied fields.  The text columns (address, notes, ...) and the         *)
(* ORM-maintained created_at/updated_at audit columns of properties and     *)
(* leads are not part of the state.                                         *)
(*                                                                         *)
(* Three specifications: Spec (the handlers, one request at a time),        *)
(* RevSpec (the revenue reads over a fixed deals table while the clock      *)
(* advances) and ConcSpec (two update_deal requests on one deal, each in    *)
(* its own session).                                                        *)
(***************************************************************************)
EXTENDS Integers, Sequences, FiniteSets, TLC

VARIABLES properties, leads, deals, now, ops, last, rev, txn

vars == <<properties, leads, deals, now, ops, last, rev, txn>>

-----------------------------------------------------------------------------
(* Bounds *)

\* number of handled write requests in one behaviour
MaxOps == 2
\* number of clock ticks in one behaviour
MaxTicks == 2
\* largest `months` argument of get_monthly_revenue
MaxMonths == 3
\* clock ticks per day (resolution of the clock)
TicksPerDay == 1

-----------------------------------------------------------------------------
(* Values *)

None == <<>>
Some(v) == <<v>>

PropertyStatus == {"available", "under_contract", "sold", "off_market"}
LeadStatus == {"new", "contacted", "interested", "not_interested", "converted"}
DealStatus == {"pending", "approved", "rejected", "closed"}

\* Python truth value of an Optional[float]: None and 0.0 are both falsy
Truthy(x) == x # None /\ x[1] # 0

\* arv * 0.10
TenPercent(arv) == (arv * 10) \div 100

\* the clock readings at which a behaviour starts: 2026-01-15 and 2026-03-01,
\* in days since 1970-01-01
StartTime == 20468 * TicksPerDay
StartTimes == {StartTime, 20513 * TicksPerDay}

\* db.query(M).filter(M.id == id).first()
First(table, id) == IF id \in DOMAIN table THEN Some(table[id]) ELSE None

\* mutant: the fields the body leaves out are set to null, as for a body
\* dumped without exclude_unset
SetAttrs_unset_as_null(row, update_data) ==
    [f \in DOMAIN row |->
        IF f \in DOMAIN update_data THEN update_data[f]
        ELSE IF f \in {"arv", "purchase_price", "offer_price", "wholesale_fee",
                       "net_profit", "estimated_value"}
             THEN None ELSE row[f]]

\* for field, value in update_data.items(): setattr(row, field, value)
SetAttrs(row, update_data) ==
    [f \in DOMAIN row |-> IF f \in DOMAIN update_data THEN update_data[f] ELSE row[f]]

\* the outcome of the last handled request: the handler, the path id, the
\* request body, the authenticated user (where the handler reads it, else 0),
\* the response, the financials the
\* handler computed (<<fee, profit>>, or <<>> when it computed none), the
\* clock reading of the call and the rows stored when the call began
Response(op, id, req, user, result, calc) ==
    [op |-> op, id |-> id, req |-> req, user |-> user, result |-> result,
     calc |-> calc, at |-> now,
     pre |-> [properties |-> properties, leads |-> leads, deals |-> deals]]

NoRequest == Response("none", 0, <<>>, 0, "none", <<>>)

\* an unhandled exception or an HTTPException: nothing is committed
Abort == UNCHANGED <<properties, leads, deals>>

\* no update_deal request is in flight
NoSessions == [session |-> <<>>, commits |-> <<>>]

-----------------------------------------------------------------------------
(* app/routers/deals.py *)

\* mutant: the unknown case yields zeros instead of None
create_deal_financials_zero(property, deal) ==
    IF Truthy(property.arv) /\ Truthy(deal.offer_price)
    THEN LET wholesale_fee == TenPercent(property.arv[1]) IN
         IF property.purchase_price = None
         THEN [raised |-> TRUE, wholesale_fee |-> Some(wholesale_fee), net_profit |-> None]
         ELSE [raised |-> FALSE, wholesale_fee |-> Some(wholesale_fee),
               net_profit |-> Some(wholesale_fee
                                   - (deal.offer_price[1] - property.purchase_price[1]))]
    ELSE [raised |-> FALSE, wholesale_fee |-> Some(0), net_profit |-> Some(0)]

\* create_deal, "Calculate wholesale fee and net profit"
create_deal_financials(property, deal) ==
    IF Truthy(property.arv) /\ Truthy(deal.offer_price)
    THEN LET wholesale_fee == TenPercent(property.arv[1]) IN
         IF property.purchase_price = None
         THEN [raised |-> TRUE, wholesale_fee |-> Some(wholesale_fee), net_profit |-> None]
         ELSE [raised |-> FALSE, wholesale_fee |-> Some(wholesale_fee),
               net_profit |-> Some(wholesale_fee
                                   - (deal.offer_price[1] - property.purchase_price[1]))]
    ELSE [raised |-> FALSE, wholesale_fee |-> None, net_profit |-> None]

\* Deal(**deal.dict(), agent_id=..., wholesale_fee=..., net_profit=...): a
\* keyword given both by the unpacked dict and explicitly is a TypeError
DealConstructor(dict, explicit) ==
    IF DOMAIN dict \cap DOMAIN explicit # {}
    THEN [raised |-> TRUE]
    ELSE [raised |-> FALSE,
          row |-> [property_id |-> dict.property_id, lead_id |-> dict.lead_id,
                   agent_id |-> explicit.agent_id, status |-> "pending",
                   offer_price |-> dict.offer_price,
                   wholesale_fee |-> explicit.wholesale_fee,
                   net_profit |-> explicit.net_profit, created_at |-> now]]

NewId(table) == IF DOMAIN table = {} THEN 1
                ELSE 1 + CHOOSE i \in DOMAIN table : \A j \in DOMAIN table : j <= i

\* mutant: the lead is not verified
create_deal_verify_property_only(property, lead) ==
    IF property = None THEN "404 Property not found" ELSE ""

\* create_deal, "Verify property and lead exist"
create_deal_verify(property, lead) ==
    IF property = None THEN "404 Property not found"
    ELSE IF lead = None THEN "404 Lead not found"
    ELSE ""

create_deal(deal, current_user) ==
    LET property == First(properties, deal.property_id)
        lead == First(leads, deal.lead_id)
        R(result, calc) == Response("create_deal", 0, deal, current_user, result, calc)
    IN  /\ ops < MaxOps
        /\ ops' = ops + 1
        /\ UNCHANGED <<now, rev, txn>>
        /\ IF create_deal_verify(property, lead) # ""
           THEN Abort /\ last' = R(create_deal_verify(property, lead), <<>>)
           ELSE LET fin == create_deal_financials(property[1], deal)
                    calc == <<fin.wholesale_fee, fin.net_profit>>
                    obj == DealConstructor(deal, [agent_id |-> current_user,
                                                  wholesale_fee |-> fin.wholesale_fee,
                                                  net_profit |-> fin.net_profit])
                IN  IF fin.raised \/ obj.raised
                    THEN Abort /\ last' = R("TypeError", calc)
                    ELSE /\ deals' = deals @@ (NewId(deals) :> obj.row)
                         /\ UNCHANGED <<properties, leads>>
                         /\ last' = R("ok", calc)

\* update_deal, "Recalculate financials if offer price changed"
update_deal_recalculate(db_deal, update_data, property) ==
    IF "offer_price" \notin DOMAIN update_data
    THEN [raised |-> "", row |-> db_deal]
    ELSE IF property = None
    THEN [raised |-> "AttributeError", row |-> db_deal]
    ELSE IF ~Truthy(property[1].arv)
    THEN [raised |-> "", row |-> db_deal]
    ELSE LET wholesale_fee == TenPercent(property[1].arv[1]) IN
         IF db_deal.offer_price = None \/ property[1].purchase_price = None
         THEN [raised |-> "TypeError", row |-> db_deal]
         ELSE [raised |-> "",
               row |-> [db_deal EXCEPT
                          !.wholesale_fee = Some(wholesale_fee),
                          !.net_profit = Some(wholesale_fee
                              - (db_deal.offer_price[1] - property[1].purchase_price[1]))]]

update_deal(deal_id, deal_update) ==
    LET db_deal == First(deals, deal_id)
        R(result) == Response("update_deal", deal_id, deal_update, 0, result, <<>>)
    IN  /\ ops < MaxOps
        /\ ops' = ops + 1
        /\ UNCHANGED <<now, rev, txn>>
        /\ IF db_deal = None
           THEN Abort /\ last' = R("404 Deal not found")
           ELSE LET patched == SetAttrs(db_deal[1], deal_update)
                    out == update_deal_recalculate(patched, deal_update,
                               First(properties, patched.property_id))
                IN  IF out.raised # ""
                    THEN Abort /\ last' = R(out.raised)
                    ELSE /\ deals' = [deals EXCEPT ![deal_id] = out.row]
                         /\ UNCHANGED <<properties, leads>>
                         /\ last' = R("ok")

delete_deal(deal_id) ==
    LET R(result) == Response("delete_deal", deal_id, <<>>, 0, result, <<>>)
    IN  /\ ops < MaxOps
        /\ ops' = ops + 1
        /\ UNCHANGED <<now, rev, txn>>
        /\ IF deal_id \notin DOMAIN deals
           THEN Abort /\ last' = R("404 Deal not found")
           ELSE /\ deals' = [d \in DOMAIN deals \ {deal_id} |-> deals[d]]
                /\ UNCHANGED <<properties, leads>>
                /\ last' = R("ok")

\* mutant: a property that is already sold keeps its sold_date
update_deal_status_property_once(status, property, utcnow) ==
    IF status # "closed"
    THEN [raised |-> "", touched |-> FALSE]
    ELSE IF property = None
    THEN [raised |-> "AttributeError", touched |-> FALSE]
    ELSE IF property[1].status = "sold"
    THEN [raised |-> "", touched |-> FALSE]
    ELSE [raised |-> "", touched |-> TRUE,
          row |-> [property[1] EXCEPT !.status = "sold", !.sold_date = Some(utcnow)]]

\* mutant: moving a deal to another status puts its property back on sale
update_deal_status_property_revert(status, property, utcnow) ==
    IF property = None
    THEN [raised |-> IF status = "closed" THEN "AttributeError" ELSE "", touched |-> FALSE]
    ELSE IF status # "closed"
    THEN [raised |-> "", touched |-> TRUE,
          row |-> [property[1] EXCEPT !.status = "available", !.sold_date = None]]
    ELSE [raised |-> "", touched |-> TRUE,
          row |-> [property[1] EXCEPT !.status = "sold", !.sold_date = Some(utcnow)]]

\* update_deal_status, "Update property status if deal is closed"
update_deal_status_property(status, property, utcnow) ==
    IF status # "closed"
    THEN [raised |-> "", touched |-> FALSE]
    ELSE IF property = None
    THEN [raised |-> "AttributeError", touched |-> FALSE]
    ELSE [raised |-> "", touched |-> TRUE,
          row |-> [property[1] EXCEPT !.status = "sold", !.sold_date = Some(utcnow)]]

update_deal_status(deal_id, status) ==
    LET db_deal == First(deals, deal_id)
        R(result) == Response("update_deal_status", deal_id, [status |-> status],
                              0, result, <<>>)
    IN  /\ ops < MaxOps
        /\ ops' = ops + 1
        /\ UNCHANGED <<now, rev, txn>>
        /\ IF db_deal = None
           THEN Abort /\ last' = R("404 Deal not found")
           ELSE LET out == update_deal_status_property(status,
                               First(properties, db_deal[1].property_id), now)
                IN  IF out.raised # ""
                    THEN Abort /\ last' = R(out.raised)
                    ELSE /\ deals' = [deals EXCEPT ![deal_id].status = status]
                         /\ properties' =
                                IF out.touched
                                THEN [properties EXCEPT ![db_deal[1].property_id] = out.row]
                                ELSE properties
                         /\ UNCHANGED leads
                         /\ last' = R("ok")

-----------------------------------------------------------------------------
(* app/routers/properties.py *)

create_property(property) ==
    /\ ops < MaxOps
    /\ ops' = ops + 1
    /\ UNCHANGED <<now, rev, txn, leads, deals>>
    /\ properties' = properties @@
           (NewId(properties) :> [arv |-> property.arv,
                                  purchase_price |-> property.purchase_price,
                                  status |-> "available", sold_date |-> None])
    /\ last' = Response("create_property", 0, property, 0, "ok", <<>>)

update_property(property_id, property_update) ==
    LET db_property == First(properties, property_id)
        R(result) == Response("update_property", property_id, property_update,
                              0, result, <<>>)
    IN  /\ ops < MaxOps
        /\ ops' = ops + 1
        /\ UNCHANGED <<now, rev, txn>>
        /\ IF db_property = None
           THEN Abort /\ last' = R("404 Property not found")
           ELSE /\ properties' = [properties EXCEPT
                                    ![property_id] = SetAttrs(db_property[1], property_update)]
                /\ UNCHANGED <<leads, deals>>
                /\ last' = R("ok")

\* mutant: the deals of the deleted property are deleted with it
delete_property_dependents_cascade(table, property_id) ==
    [d \in {x \in DOMAIN table : table[x].property_id # property_id} |-> table[d]]

\* db.delete(db_property); db.commit(): the deals table after a DELETE that
\* went through (no cascade rule, no relationship from Property to Deal)
delete_property_dependents(table, property_id) == table

\* deals.property_id is ForeignKey("properties.id") with no ON DELETE rule and
\* Property has no relationship to its deals: the DELETE is refused by an
\* engine that enforces the constraint and orphans the deals on one that
\* does not
delete_property(property_id) ==
    LET R(result) == Response("delete_property", property_id, <<>>, 0, result, <<>>)
        referenced == \E d \in DOMAIN deals : deals[d].property_id = property_id
    IN  /\ ops < MaxOps
        /\ ops' = ops + 1
        /\ UNCHANGED <<now, rev, txn>>
        /\ IF property_id \notin DOMAIN properties
           THEN Abort /\ last' = R("404 Property not found")
           ELSE \/ /\ properties' = [q \in DOMAIN properties \ {property_id} |-> properties[q]]
                   /\ deals' = delete_property_dependents(deals, property_id)
                   /\ UNCHANGED leads
                   /\ last' = R("ok")
                \/ /\ referenced
                   /\ Abort
                   /\ last' = R("IntegrityError")

-----------------------------------------------------------------------------
(* app/routers/leads.py *)

update_lead(lead_id, lead_update) ==
    LET db_lead == First(leads, lead_id)
        R(result) == Response("update_lead", lead_id, lead_update, 0, result, <<>>)
    IN  /\ ops < MaxOps
        /\ ops' = ops + 1
        /\ UNCHANGED <<now, rev, txn>>
        /\ IF db_lead = None
           THEN Abort /\ last' = R("404 Lead not found")
           ELSE /\ leads' = [leads EXCEPT ![lead_id] = SetAttrs(db_lead[1], lead_update)]
                /\ UNCHANGED <<properties, deals>>
                /\ last' = R("ok")

-----------------------------------------------------------------------------
(* app/routers/dashboard.py: get_monthly_revenue *)

\* timedelta(days=30 * ...)
WindowDays == 30

Window == WindowDays * TicksPerDay

\* the (year, month) of a clock reading, by the proleptic Gregorian calendar
YearMonth(t) ==
    LET z == (t \div TicksPerDay) + 719468
        era == z \div 146097
        doe == z - era * 146097
        yoe == (doe - doe \div 1460 + doe \div 36524 - doe \div 146096) \div 365
        doy == doe - (365 * yoe + yoe \div 4 - yoe \div 100)
        mp == (5 * doy + 2) \div 153
        m == IF mp < 10 THEN mp + 3 ELSE mp - 9
        y == yoe + era * 400 + (IF m <= 2 THEN 1 ELSE 0)
    IN  <<y, m>>

Digit(n) == <<"0", "1", "2", "3", "4", "5", "6", "7", "8", "9">>[n + 1]

\* date.strftime("%Y-%m"), as the sequence of its characters
strftime(t) ==
    LET y == YearMonth(t)[1]
        m == YearMonth(t)[2]
    IN  <<Digit((y \div 1000) % 10), Digit((y \div 100) % 10), Digit((y \div 10) % 10),
          Digit(y % 10), "-", Digit(m \div 10), Digit(m % 10)>>

\* "month": start_date.strftime("%Y-%m")
month_label(start_date, end_date) == strftime(start_date)

RECURSIVE SumOver(_, _)
SumOver(table, ids) ==
    IF ids = {} THEN 0
    ELSE LET d == CHOOSE x \in ids : TRUE
         IN  table[d].net_profit[1] + SumOver(table, ids \ {d})

\* db.query(func.sum(Deal.net_profit)).filter(...).scalar(): SUM skips NULLs
\* and is NULL when no row has a value
SumNetProfit(table, ids) ==
    LET valued == {d \in ids : table[d].net_profit # None}
    IN  IF valued = {} THEN None ELSE Some(SumOver(table, valued))

\* x or 0
OrZero(x) == IF Truthy(x) THEN x[1] ELSE 0

\* the deals of one bucket's query
BucketDeals(start_date, end_date) ==
    {d \in DOMAIN deals : /\ deals[d].status = "closed"
                          /\ deals[d].created_at >= start_date
                          /\ deals[d].created_at < end_date}

RevIdle ==
    [pc |-> "idle", months |-> 0, i |-> 0, start_date |-> 0, read |-> 0,
     monthly_data |-> <<>>, windows |-> <<>>, result |-> <<>>]

\* the request arrives
get_monthly_revenue_call(months) ==
    /\ rev.pc = "idle"
    /\ rev' = [rev EXCEPT !.pc = "loop", !.months = months]
    /\ UNCHANGED <<properties, leads, deals, now, ops, last, txn>>

\* start_date = datetime.utcnow() - timedelta(days=30 * (i + 1))
get_monthly_revenue_start_date ==
    /\ rev.pc = "loop"
    /\ rev.i < rev.months
    /\ rev' = [rev EXCEPT !.pc = "query", !.read = now,
                          !.start_date = now - Window * (rev.i + 1)]
    /\ UNCHANGED <<properties, leads, deals, now, ops, last, txn>>

\* end_date = datetime.utcnow() - timedelta(days=30 * i), the query and the
\* append.  `windows` keeps, for each appended entry, the window it was
\* computed for and the clock reading its start_date was taken from
get_monthly_revenue_bucket ==
    /\ rev.pc = "query"
    /\ LET end_date == now - Window * rev.i
           revenue == OrZero(SumNetProfit(deals, BucketDeals(rev.start_date, end_date)))
       IN  rev' = [rev EXCEPT
                     !.pc = "loop",
                     !.i = rev.i + 1,
                     !.monthly_data = Append(rev.monthly_data,
                         [month |-> month_label(rev.start_date, end_date),
                          revenue |-> revenue]),
                     !.windows = Append(rev.windows,
                         [start_date |-> rev.start_date, end_date |-> end_date,
                          read |-> rev.read])]
    /\ UNCHANGED <<properties, leads, deals, now, ops, last, txn>>

\* monthly_data[::-1]
Reversed(seq) == [k \in 1..Len(seq) |-> seq[Len(seq) + 1 - k]]

\* mutant: the list is returned in the order it was built
get_monthly_revenue_result_unreversed(monthly_data) == monthly_data

\* return monthly_data[::-1]  # Reverse to show oldest first
get_monthly_revenue_result(monthly_data) == Reversed(monthly_data)

get_monthly_revenue_return ==
    /\ rev.pc = "loop"
    /\ rev.i >= rev.months
    /\ rev' = [rev EXCEPT !.pc = "done",
                          !.result = get_monthly_revenue_result(rev.monthly_data)]
    /\ UNCHANGED <<properties, leads, deals, now, ops, last, txn>>

-----------------------------------------------------------------------------
(* The revenue aggregates of get_dashboard_stats and get_deals_analytics *)

\* the rows of filter(Deal.status == DealStatus.CLOSED)
ClosedDeals(table) == {d \in DOMAIN table : table[d].status = "closed"}

\* mutant: the sum is taken over the deals of every status
total_revenue_any_status(table) == OrZero(SumNetProfit(table, DOMAIN table))

\* total_revenue = db.query(func.sum(Deal.net_profit)).filter(
\*     Deal.status == DealStatus.CLOSED).scalar() or 0
total_revenue(table) == OrZero(SumNetProfit(table, ClosedDeals(table)))

\* thirty_days_ago = datetime.utcnow() - timedelta(days=30), then the sum over
\* the closed deals with created_at >= thirty_days_ago, or 0
monthly_revenue(table, utcnow) ==
    LET thirty_days_ago == utcnow - Window
    IN  OrZero(SumNetProfit(table,
            {d \in ClosedDeals(table) : table[d].created_at >= thirty_days_ago}))

\* GET /dashboard/stats; calc holds <<total_revenue, monthly_revenue>> of the
\* response
get_dashboard_stats ==
    /\ last' = Response("get_dashboard_stats", 0, <<>>, 0, "ok",
                        <<total_revenue(deals), monthly_revenue(deals, now)>>)
    /\ UNCHANGED <<properties, leads, deals, now, ops, rev, txn>>

\* GET /deals/analytics/summary; calc holds <<total_revenue, monthly_revenue>>
\* of the response
get_deals_analytics ==
    /\ last' = Response("get_deals_analytics", 0, <<>>, 0, "ok",
                        <<total_revenue(deals), monthly_revenue(deals, now)>>)
    /\ UNCHANGED <<properties, leads, deals, now, ops, rev, txn>>

-----------------------------------------------------------------------------
(* The clock read by datetime.utcnow() *)

Tick ==
    /\ \E t \in StartTimes : t <= now /\ now < t + MaxTicks
    /\ now' = now + 1
    /\ UNCHANGED <<properties, leads, deals, ops, last, rev, txn>>

-----------------------------------------------------------------------------
(* Requests *)

Users == {1}
DealIds == {1, 2}
PropertyIds == {1, 2}

\* DealCreate bodies (offer_price: float is required, so never None)
DealCreates ==
    { [property_id |-> x[1], lead_id |-> x[2], agent_id |-> 2, offer_price |-> x[3],
       wholesale_fee |-> None, net_profit |-> x[4]] :
      x \in { <<1, 1, Some(140), None>>, <<1, 1, Some(0), None>>,
              <<1, 1, Some(160), Some(70)>>, <<1, 2, Some(140), None>>,
              <<2, 1, Some(140), None>>, <<2, 2, Some(140), None>> } }

\* update_data of DealUpdate bodies
DealUpdates ==
    { <<>>,
      [offer_price |-> Some(160)],
      [offer_price |-> None],
      [status |-> "closed"],
      [offer_price |-> Some(160), status |-> "closed"],
      [offer_price |-> Some(140), wholesale_fee |-> Some(70), net_profit |-> Some(70)] }

\* update_data of LeadUpdate bodies
LeadIds == {1, 2}
LeadUpdates == { [status |-> "contacted"], [estimated_value |-> Some(90)] }

\* PropertyCreate bodies
PropertyCreates == { [arv |-> Some(300), purchase_price |-> Some(150)] }

\* update_data of PropertyUpdate bodies
PropertyUpdates ==
    { [arv |-> None],
      [arv |-> Some(0)],
      [purchase_price |-> None],
      [arv |-> Some(300), purchase_price |-> Some(150)],
      [status |-> "available"],
      [status |-> "under_contract"] }

-----------------------------------------------------------------------------
(* The stored rows a behaviour starts from: one property, one lead and two  *)
(* pending deals on them, with the derived fields as create_deal computes    *)
(* them for the property's values.                                          *)

SeedProperties ==
    [arv : {None, Some(200)}, purchase_price : {None, Some(120)},
     status : {"available"}, sold_date : {None}]

SeedDeal(property, offer) ==
    LET fin == create_deal_financials(property, [offer_price |-> offer])
    IN  [property_id |-> 1, lead_id |-> 1, agent_id |-> 1, status |-> "pending",
         offer_price |-> offer,
         wholesale_fee |-> IF fin.raised THEN None ELSE fin.wholesale_fee,
         net_profit |-> fin.net_profit, created_at |-> 0]

Init ==
    /\ now = StartTime
    /\ \E p \in SeedProperties :
          /\ properties = (1 :> p)
          /\ deals = (1 :> SeedDeal(p, Some(140))) @@ (2 :> SeedDeal(p, Some(160)))
    /\ leads = (1 :> [status |-> "new", estimated_value |-> None])
    /\ ops = 0
    /\ last = NoRequest
    /\ rev = RevIdle
    /\ txn = NoSessions

Next ==
    \/ \E deal \in DealCreates, u \in Users : create_deal(deal, u)
    \/ \E id \in DealIds, deal_update \in DealUpdates : update_deal(id, deal_update)
    \/ \E id \in DealIds : delete_deal(id)
    \/ \E id \in DealIds, status \in DealStatus : update_deal_status(id, status)
    \/ \E property \in PropertyCreates : create_property(property)
    \/ \E id \in PropertyIds, property_update \in PropertyUpdates :
          update_property(id, property_update)
    \/ \E id \in PropertyIds : delete_property(id)
    \/ \E id \in LeadIds, lead_update \in LeadUpdates : update_lead(id, lead_update)
    \/ Tick

Spec == Init /\ [][Next]_vars

-----------------------------------------------------------------------------
(* The revenue series over a fixed deals table: the rows are drawn around the *)
(* window boundaries of the starting clock reading.                          *)

RevDeal(created_at, status, net_profit) ==
    [property_id |-> 1, lead_id |-> 1, agent_id |-> 1, status |-> status,
     offer_price |-> Some(140), wholesale_fee |-> None, net_profit |-> net_profit,
     created_at |-> created_at]

RevDealTables(t) ==
    {<<>>} \cup
    { (1 :> RevDeal(t - c, status, net_profit)) :
        c \in {1, Window - 1, Window, Window + 1},
        status \in {"closed", "pending"},
        net_profit \in {None, Some(10)} }

RevInit ==
    /\ now \in StartTimes
    /\ deals \in RevDealTables(now)
    /\ properties = (1 :> [arv |-> None, purchase_price |-> None,
                           status |-> "available", sold_date |-> None])
    /\ leads = (1 :> [status |-> "new"])
    /\ ops = 0
    /\ last = NoRequest
    /\ rev = RevIdle
    /\ txn = NoSessions

RevNext ==
    \/ \E months \in -1..MaxMonths : get_monthly_revenue_call(months)
    \/ get_monthly_revenue_start_date
    \/ get_monthly_revenue_bucket
    \/ get_monthly_revenue_return
    \/ get_dashboard_stats
    \/ get_deals_analytics
    \/ Tick

RevSpec == RevInit /\ [][RevNext]_vars

-----------------------------------------------------------------------------
(* Two update_deal requests on the same deal, each in the session of its own *)
(* request.  A session holds the row as it loaded it and the object the      *)
(* handler assigns to; db.commit() flushes one UPDATE that sets the columns  *)
(* whose value differs from the loaded one, and commits.  txn.commits is the *)
(* order of the commits.                                                     *)

Requests == {1, 2}
RacedDeal == 1

\* db_deal = db.query(Deal).filter(Deal.id == deal_id).first()
update_deal_query(r) ==
    /\ txn.session[r].pc = "query"
    /\ txn' = [txn EXCEPT !.session[r] =
                 IF RacedDeal \in DOMAIN deals
                 THEN [@ EXCEPT !.pc = "patch", !.loaded = deals[RacedDeal],
                                !.db_deal = deals[RacedDeal]]
                 ELSE [@ EXCEPT !.pc = "404 Deal not found"]]
    /\ UNCHANGED <<properties, leads, deals, now, ops, last, rev>>

\* the setattr loop and the recalculation, on the session's object
update_deal_patch(r) ==
    /\ txn.session[r].pc = "patch"
    /\ LET update_data == txn.session[r].update_data
           patched == SetAttrs(txn.session[r].db_deal, update_data)
           out == update_deal_recalculate(patched, update_data,
                      First(properties, patched.property_id))
       IN  txn' = [txn EXCEPT !.session[r] =
                     IF out.raised # ""
                     THEN [@ EXCEPT !.pc = out.raised]
                     ELSE [@ EXCEPT !.pc = "commit", !.db_deal = out.row]]
    /\ UNCHANGED <<properties, leads, deals, now, ops, last, rev>>

\* the UPDATE of a flush: the columns whose value differs from the loaded one
FlushedColumns(loaded, db_deal) == {f \in DOMAIN db_deal : db_deal[f] # loaded[f]}

\* db.commit()
update_deal_commit(r) ==
    /\ txn.session[r].pc = "commit"
    /\ RacedDeal \in DOMAIN deals
    /\ LET dirty == FlushedColumns(txn.session[r].loaded, txn.session[r].db_deal)
       IN  deals' = [deals EXCEPT ![RacedDeal] =
                       [f \in DOMAIN @ |-> IF f \in dirty
                                           THEN txn.session[r].db_deal[f] ELSE @[f]]]
    /\ txn' = [txn EXCEPT !.session[r].pc = "done", !.commits = Append(@, r)]
    /\ UNCHANGED <<properties, leads, now, ops, last, rev>>

ConcInit ==
    /\ now = StartTime
    /\ \E p \in SeedProperties :
          /\ properties = (1 :> p)
          /\ deals = (RacedDeal :> SeedDeal(p, Some(140)))
    /\ leads = (1 :> [status |-> "new", estimated_value |-> None])
    /\ ops = 0
    /\ last = NoRequest
    /\ rev = RevIdle
    /\ \E u1 \in DealUpdates, u2 \in DealUpdates :
          txn = [session |-> [r \in Requests |->
                                 [pc |-> "query",
                                  update_data |-> IF r = 1 THEN u1 ELSE u2,
                                  loaded |-> <<>>, db_deal |-> <<>>]],
                 commits |-> <<>>]

ConcNext ==
    \/ \E r \in Requests : update_deal_query(r)
    \/ \E r \in Requests : update_deal_patch(r)
    \/ \E r \in Requests : update_deal_commit(r)

ConcSpec == ConcInit /\ [][ConcNext]_vars

-----------------------------------------------------------------------------
(* Claims about the deal financials *)

\* the property row a create_deal request names, as stored when the call began
RequestedProperty == last.pre.properties[last.req.property_id]

\* create_deal got past "Verify property and lead exist"
CreateDealVerified ==
    /\ last.op = "create_deal"
    /\ last.req.property_id \in DOMAIN last.pre.properties
    /\ last.req.lead_id \in DOMAIN last.pre.leads

\* update_deal found its deal and the deal's linked property
UpdateDealLinked ==
    /\ last.op = "update_deal"
    /\ last.id \in DOMAIN last.pre.deals
    /\ last.pre.deals[last.id].property_id \in DOMAIN last.pre.properties

\* the property linked to the deal update_deal was called on
UpdatedDealProperty == last.pre.properties[last.pre.deals[last.id].property_id]

\* C1: every create_deal call on a property whose ARV and purchase_price are
\* known, with a known offer_price, stores a new deal with
\* wholesale_fee = 0.10 * ARV and net_profit = wholesale_fee - (offer_price -
\* purchase_price)
C1_CreateDealStoresFinancials ==
    ( /\ CreateDealVerified
      /\ RequestedProperty.arv # None
      /\ RequestedProperty.purchase_price # None
      /\ last.req.offer_price # None )
    => /\ last.result = "ok"
       /\ \E d \in DOMAIN deals \ DOMAIN last.pre.deals :
             LET fee == TenPercent(RequestedProperty.arv[1]) IN
             /\ deals[d].wholesale_fee = Some(fee)
             /\ deals[d].net_profit =
                   Some(fee - (last.req.offer_price[1] - RequestedProperty.purchase_price[1]))

\* C2: whenever create_deal reaches its financial calculation with a property
\* whose ARV is None, the calculation yields wholesale_fee = None and
\* net_profit = None; and the calculation, applied to any stored property and
\* any offer_price, yields (None, None) without raising when the ARV or the
\* offer_price is None
C2_UnknownInputsGiveNullPair ==
    /\ ( /\ CreateDealVerified
         /\ RequestedProperty.arv = None )
       => last.calc = <<None, None>>
    /\ \A q \in DOMAIN properties : \A offer \in {None, Some(0), Some(140)} :
         (properties[q].arv = None \/ offer = None) =>
            LET fin == create_deal_financials(properties[q], [offer_price |-> offer])
            IN  ~fin.raised /\ fin.wholesale_fee = None /\ fin.net_profit = None

\* C2 witness: create_deal computed the financials for a property without ARV
C2_Witness ==
    /\ CreateDealVerified
    /\ RequestedProperty.arv = None
    /\ RequestedProperty.purchase_price # None
    /\ last.calc = <<None, None>>

\* C3: with a known ARV and a known offer_price but purchase_price = None,
\* create_deal and update_deal's recomputation complete without an error and
\* the net_profit they store is None
C3_NullPurchasePriceIsTotal ==
    /\ ( /\ CreateDealVerified
         /\ RequestedProperty.arv # None
         /\ last.req.offer_price # None
         /\ RequestedProperty.purchase_price = None )
       => /\ last.result = "ok"
          /\ \E d \in DOMAIN deals \ DOMAIN last.pre.deals : deals[d].net_profit = None
    /\ ( /\ UpdateDealLinked
         /\ "offer_price" \in DOMAIN last.req
         /\ last.req.offer_price # None
         /\ UpdatedDealProperty.arv # None
         /\ UpdatedDealProperty.purchase_price = None )
       => /\ last.result = "ok"
          /\ deals[last.id].net_profit = None

\* C4: update_deal with offer_price supplied, on a deal whose linked property
\* has a known ARV, stores wholesale_fee = 0.10 * ARV and net_profit =
\* wholesale_fee - (new offer_price - purchase_price).  (Stated for the calls
\* in which the new offer_price and the purchase_price are known, where the
\* right-hand side is defined.)
C4_UpdateDealRecomputes ==
    ( /\ UpdateDealLinked
      /\ "offer_price" \in DOMAIN last.req
      /\ last.req.offer_price # None
      /\ UpdatedDealProperty.arv # None
      /\ UpdatedDealProperty.purchase_price # None )
    => /\ last.result = "ok"
       /\ LET fee == TenPercent(UpdatedDealProperty.arv[1]) IN
          /\ deals[last.id].wholesale_fee = Some(fee)
          /\ deals[last.id].net_profit =
                Some(fee - (last.req.offer_price[1] - UpdatedDealProperty.purchase_price[1]))

\* C5: update_deal changing the offer_price of a deal whose linked property
\* has no known ARV leaves the deal with wholesale_fee = None and
\* net_profit = None.  (Stated for the patches that supply neither derived
\* field.)
C5_UpdateDealWithoutArvNulls ==
    ( /\ UpdateDealLinked
      /\ last.result = "ok"
      /\ "offer_price" \in DOMAIN last.req
      /\ last.req.offer_price # last.pre.deals[last.id].offer_price
      /\ "wholesale_fee" \notin DOMAIN last.req
      /\ "net_profit" \notin DOMAIN last.req
      /\ UpdatedDealProperty.arv = None )
    => /\ deals[last.id].wholesale_fee = None
       /\ deals[last.id].net_profit = None

-----------------------------------------------------------------------------
(* Claims about closing a deal *)

\* update_deal_status(deal, status) succeeded
StatusCallOk(status) ==
    /\ last.op = "update_deal_status"
    /\ last.result = "ok"
    /\ last.req.status = status

\* C6: after every successful update_deal_status(deal, closed) the deal is
\* closed and the linked property is sold with sold_date = the time of the
\* call, whatever the deal's and the property's status were before
C6_CloseStampsProperty ==
    StatusCallOk("closed") =>
        /\ deals[last.id].status = "closed"
        /\ deals[last.id].property_id \in DOMAIN properties
        /\ properties[deals[last.id].property_id].status = "sold"
        /\ properties[deals[last.id].property_id].sold_date = Some(last.at)

\* C6 witness: an already closed deal, whose property was stamped at an
\* earlier time, has been closed again
C6_Witness ==
    /\ StatusCallOk("closed")
    /\ last.pre.deals[last.id].status = "closed"
    /\ last.pre.properties[deals[last.id].property_id].status = "sold"
    /\ last.pre.properties[deals[last.id].property_id].sold_date # None
    /\ last.pre.properties[deals[last.id].property_id].sold_date # Some(last.at)
    /\ properties[deals[last.id].property_id].sold_date = Some(last.at)

\* C7: every successful operation that sets a deal's status to closed,
\* update_deal_status or update_deal with status = closed in the patch, leaves
\* the linked property sold with a sold_date
C7_EveryCloseSellsProperty ==
    ( /\ last.result = "ok"
      /\ last.op \in {"update_deal_status", "update_deal"}
      /\ "status" \in DOMAIN last.req
      /\ last.req.status = "closed"
      /\ deals[last.id].property_id \in DOMAIN properties )
    => /\ properties[deals[last.id].property_id].status = "sold"
       /\ properties[deals[last.id].property_id].sold_date # None

C9_CreateDealNeedsPropertyAndLead ==
    last.op = "create_deal" =>
        /\ last.req.property_id \notin DOMAIN last.pre.properties
              => last.result = "404 Property not found"
        /\ ( /\ last.req.property_id \in DOMAIN last.pre.properties
             /\ last.req.lead_id \notin DOMAIN last.pre.leads )
              => last.result = "404 Lead not found"
        /\ ~CreateDealVerified =>
              /\ deals = last.pre.deals
              /\ properties = last.pre.properties
              /\ leads = last.pre.leads

\* C9 witness: a request naming an existing property and a missing lead
C9_Witness ==
    /\ last.op = "create_deal"
    /\ last.req.property_id \in DOMAIN last.pre.properties
    /\ last.req.lead_id \notin DOMAIN last.pre.leads
    /\ last.result = "404 Lead not found"

-----------------------------------------------------------------------------
(* Claims about get_monthly_revenue *)

\* entry k of the result (k = 1 is the first, oldest entry) was computed in
\* iteration months - k of the loop
EntryWindow(k) == rev.windows[rev.months + 1 - k]

\* the returned entries are ordered oldest window first, entry k (from 0)
\* covers the window that starts 30 * (N - k) days before the clock reading
\* taken for it, and is labelled with the year-month of that start
SeriesOrderedAndLabelled ==
    /\ \A k \in 1..Len(rev.result) :
          /\ EntryWindow(k).start_date = EntryWindow(k).read - Window * (rev.months - (k - 1))
          /\ rev.result[k].month = strftime(EntryWindow(k).start_date)
          /\ Len(rev.result[k].month) = 7
    /\ \A k \in 1..(Len(rev.result) - 1) :
          EntryWindow(k).start_date < EntryWindow(k + 1).start_date

CountingBuckets(d) ==
    {i \in 1..Len(rev.windows) : d \in BucketDeals(rev.windows[i].start_date,
                                                   rev.windows[i].end_date)}

\* C11: in one get_monthly_revenue(N) call there is a single "now" such that
\* bucket i holds the sum of the closed deals created in the fixed window
\* [now - 30(i+1)d, now - 30i d), so every closed deal
\* created in the last 30 * N days is counted in exactly one bucket and every
\* other deal in none, however the clock advances during the call
C11_BucketsPartitionOneNow ==
    (rev.pc = "done" /\ rev.months > 0) =>
        \E t \in (rev.windows[1].read)..now :
            /\ \A i \in 1..rev.months :
                  rev.monthly_data[i].revenue =
                      OrZero(SumNetProfit(deals,
                          BucketDeals(t - Window * i, t - Window * (i - 1))))
            /\ \A d \in DOMAIN deals :
                  Cardinality(CountingBuckets(d)) =
                      IF d \in BucketDeals(t - Window * rev.months, t) THEN 1 ELSE 0

-----------------------------------------------------------------------------
(* Claims about the revenue aggregates *)

\* the closed deals with a stored net_profit created at or after `since`
ValuedClosedSince(since) ==
    {d \in DOMAIN deals : /\ deals[d].status = "closed"
                          /\ deals[d].net_profit # None
                          /\ deals[d].created_at >= since}

\* C12: every revenue aggregate is the number 0 when no closed deal with a
\* stored net_profit matches its filter (no deals at all, no closed deal in
\* range, or only closed deals with null net_profit): total_revenue and
\* monthly_revenue of get_dashboard_stats and get_deals_analytics, and every
\* bucket of get_monthly_revenue
C12_EmptyAggregatesAreZero ==
    /\ last.op \in {"get_dashboard_stats", "get_deals_analytics"} =>
          /\ last.result = "ok"
          /\ Len(last.calc) = 2
          /\ (ValuedClosedSince(0) = {}) => last.calc[1] = 0
          /\ (ValuedClosedSince(last.at - Window) = {}) => last.calc[2] = 0
    /\ \A i \in 1..Len(rev.monthly_data) :
          ({d \in ValuedClosedSince(rev.windows[i].start_date) :
                deals[d].created_at < rev.windows[i].end_date} = {})
              => rev.monthly_data[i].revenue = 0

\* C12 witness: both handlers answered 0 and 0 over a table whose only closed
\* deal in range has a null net_profit, and a bucket over it is 0
C12_Witness ==
    /\ last.op = "get_deals_analytics"
    /\ last.calc = <<0, 0>>
    /\ \E d \in DOMAIN deals : /\ deals[d].status = "closed"
                               /\ deals[d].net_profit = None
                               /\ deals[d].created_at >= last.at - Window
    /\ \E i \in 1..Len(rev.monthly_data) :
          /\ rev.monthly_data[i].revenue = 0
          /\ BucketDeals(rev.windows[i].start_date, rev.windows[i].end_date) # {}

-----------------------------------------------------------------------------
(* Claims about delete_property *)

\* a delete_property call on a property that was stored when it began
DeleteOfStoredProperty ==
    /\ last.op = "delete_property"
    /\ last.id \in DOMAIN last.pre.properties

\* the deals that referenced the property of the last delete_property call
DeletedPropertyDeals ==
    {d \in DOMAIN last.pre.deals : last.pre.deals[d].property_id = last.id}

\* the call changed no deal, no lead and no other property
DeleteLeavesTheRest ==
    /\ deals = last.pre.deals
    /\ leads = last.pre.leads
    /\ \A q \in DOMAIN last.pre.properties \ {last.id} :
          q \in DOMAIN properties /\ properties[q] = last.pre.properties[q]
    /\ DOMAIN properties \subseteq DOMAIN last.pre.properties

\* C13 as claimed: delete_property on an existing property removes that
\* property row and only it: every deal that referenced it is still stored
\* with all its fields unchanged, and no lead or other property is changed
C13_DeleteRemovesOnlyTheProperty ==
    DeleteOfStoredProperty =>
        /\ last.id \notin DOMAIN properties
        /\ DeleteLeavesTheRest

\* C13 amended: delete_property on an existing property changes no deal, no
\* lead and no other property; it removes the property row when no deal
\* references it, and when deals reference it either removes the row and
\* leaves them stored unchanged, or fails with an integrity error and
\* removes nothing
C13_DeleteNeverTouchesDeals ==
    DeleteOfStoredProperty =>
        /\ DeleteLeavesTheRest
        /\ last.result \in {"ok", "IntegrityError"}
        /\ last.result = "ok" <=> last.id \notin DOMAIN properties
        /\ last.result = "IntegrityError" =>
              /\ DeletedPropertyDeals # {}
              /\ properties = last.pre.properties

\* C13 witness: a property with two deals was deleted and both deals are
\* stored with their property_id naming the missing row
C13_Witness ==
    /\ DeleteOfStoredProperty
    /\ last.result = "ok"
    /\ last.id \notin DOMAIN properties
    /\ Cardinality(DeletedPropertyDeals) = 2
    /\ \A d \in DeletedPropertyDeals :
          d \in DOMAIN deals /\ deals[d].property_id = last.id

-----------------------------------------------------------------------------
(* Claims about the update handlers *)

\* the three tables as they are now
Stored == [properties |-> properties, leads |-> leads, deals |-> deals]

\* the table the last update handler patched, in a snapshot of the tables
PatchedTable(st) ==
    IF last.op = "update_property" THEN st.properties
    ELSE IF last.op = "update_lead" THEN st.leads
    ELSE st.deals

\* an update_property, update_lead or update_deal call that succeeded
PatchOk ==
    /\ last.op \in {"update_property", "update_lead", "update_deal"}
    /\ last.result = "ok"

\* the call changed no other entity: the other rows of the patched table and
\* the other two tables are as they were
PatchLeavesTheRest ==
    /\ DOMAIN PatchedTable(Stored) = DOMAIN PatchedTable(last.pre)
    /\ \A x \in DOMAIN PatchedTable(last.pre) \ {last.id} :
          PatchedTable(Stored)[x] = PatchedTable(last.pre)[x]
    /\ last.op # "update_property" => properties = last.pre.properties
    /\ last.op # "update_lead" => leads = last.pre.leads
    /\ last.op # "update_deal" => deals = last.pre.deals

\* field f of the target is the supplied value if the body supplies it and
\* the value it had before otherwise
PatchedField(f) ==
    PatchedTable(Stored)[last.id][f] =
        IF f \in DOMAIN last.req THEN last.req[f] ELSE PatchedTable(last.pre)[last.id][f]

\* update_deal recomputed the derived fields: the body supplies offer_price
\* and the linked property's ARV is known and not zero
PatchRecomputes ==
    /\ last.op = "update_deal"
    /\ "offer_price" \in DOMAIN last.req
    /\ Truthy(UpdatedDealProperty.arv)

-----------------------------------------------------------------------------
(* Claims about concurrent update_deal requests *)

\* the row one update_deal request leaves when it runs alone on `row`
UpdateDealAlone(row, update_data) ==
    update_deal_recalculate(SetAttrs(row, update_data), update_data,
        First(properties, row.property_id)).row

\* both requests committed
BothCommitted == \A r \in Requests : txn.session[r].pc = "done"

\* the deal's derived fields are the ones the formula gives for its stored
\* offer_price and its property's stored values, where it gives any
DerivedFromStoredOffer(deal) ==
    LET fin == create_deal_financials(properties[deal.property_id],
                                      [offer_price |-> deal.offer_price])
    IN  \/ fin.raised
        \/ /\ deal.wholesale_fee = fin.wholesale_fee
           /\ deal.net_profit = fin.net_profit

\* the stored deal is the result of running the two requests one after the
\* other in the order of their commits
CommitOrderResult ==
    LET first == txn.session[txn.commits[1]].update_data
        second == txn.session[txn.commits[2]].update_data
        start == SeedDeal(properties[1], Some(140))
    IN  deals[RacedDeal] = UpdateDealAlone(UpdateDealAlone(start, first), second)

\* C15: when two update_deal requests on the same deal run concurrently, each
\* in its own transaction, then in every interleaving the deal stored after
\* both commits is the result of running the two requests one after the other
\* in the order of their commits, and its stored wholesale_fee and net_profit
\* are the ones computed from its stored offer_price
C15_ConcurrentUpdatesSerialize ==
    BothCommitted =>
        /\ CommitOrderResult
        /\ DerivedFromStoredOffer(deals[RacedDeal])

-----------------------------------------------------------------------------
(* Claims about what create_deal stores and about the stored derived fields *)

\* C16: create_deal with a validated request that names an existing property
\* and an existing lead succeeds and stores exactly one new deal, whose
\* agent_id is the authenticated user's id and whose wholesale_fee and
\* net_profit are the ones the server computed, whatever the body carries in
\* these three fields; the deals stored before are unchanged
C16_CreateDealStoresOneDeal ==
    CreateDealVerified =>
        /\ last.result = "ok"
        /\ Cardinality(DOMAIN deals \ DOMAIN last.pre.deals) = 1
        /\ \A d \in DOMAIN deals \ DOMAIN last.pre.deals :
              /\ deals[d].agent_id = last.user
              /\ <<deals[d].wholesale_fee, deals[d].net_profit>> = last.calc
        /\ \A d \in DOMAIN last.pre.deals :
              d \in DOMAIN deals /\ deals[d] = last.pre.deals[d]

\* the derived fields of a stored deal are the formula's values for the
\* deal's offer_price and its property's ARV and purchase_price
DealFinancialsConsistent(d) ==
    LET property == properties[deals[d].property_id]
        fee == TenPercent(property.arv[1])
    IN  /\ property.arv # None
        /\ deals[d].wholesale_fee = Some(fee)
        /\ deals[d].offer_price # None
        /\ property.purchase_price # None
        /\ deals[d].net_profit =
              Some(fee - (deals[d].offer_price[1] - property.purchase_price[1]))

\* C17: in every reachable state, every stored deal whose wholesale_fee is
\* not null satisfies wholesale_fee = 0.10 * (ARV of its linked property) and
\* net_profit = wholesale_fee - (offer_price - purchase_price of that
\* property)
C17_StoredFinancialsConsistent ==
    \A d \in DOMAIN deals :
        (deals[d].wholesale_fee # None /\ deals[d].property_id \in DOMAIN properties)
            => DealFinancialsConsistent(d)

====
